---- MODULE Spec2Model ----
(***************************************************************************)
(* Model of src/AutismFriendlySite.jsx: the AutismFriendlySite React       *)
(* component, its five useState hooks, its two effects, its event          *)
(* handlers and the decorative child components it renders.                *)
(*                                                                         *)
(* One action is one browser event (or the mount of the component): the    *)
(* handler's setState calls, React's flush of the queued updates, the      *)
(* commit of the new render output and the effects of that commit.         *)
(***************************************************************************)
EXTENDS Integers, Sequences, FiniteSets, TLC

VARIABLES
    theme,        \* useState("calm")                      line 22
    fontSize,     \* useState(16)                          line 23
    reduceMotion, \* useState(false)                       line 24
    simplified,   \* useState(false)                       line 25
    sparklesOn,   \* useState(true)                        line 26
    rootStyle,    \* custom properties of document.documentElement.style
    hostSignal,   \* window.matchMedia("(prefers-reduced-motion: reduce)").matches
    phase,        \* "rendered": first render committed, effects pending; "mounted"
    view,         \* the render output last committed to the DOM
    commits,      \* the hook states committed (rendered) by the last event
    lastOp        \* the last event: [name, arg]

vars == <<theme, fontSize, reduceMotion, simplified, sparklesOn,
          rootStyle, hostSignal, phase, view, commits, lastOp>>

----------------------------------------------------------------------------
(* Bounds and program constants *)

\* How far beyond the slider's range an attempted value may lie.
InputSlack == 12

\* <input type="range" min={14} max={28}>
SliderMin == 14
SliderMax == 28

\* useState(16)
DefaultFontSize == 16

Themes == {"calm", "ocean", "contrast"}

\* The values a user (or a script driving the control) may try to give the slider.
SliderAttempts == (SliderMin - InputSlack)..(SliderMax + InputSlack)

----------------------------------------------------------------------------
(* The hook state as one record *)

Hooks ==
    [theme |-> theme, fontSize |-> fontSize, reduceMotion |-> reduceMotion,
     simplified |-> simplified, sparklesOn |-> sparklesOn]

InitialHooks ==
    [theme |-> "calm", fontSize |-> DefaultFontSize, reduceMotion |-> FALSE,
     simplified |-> FALSE, sparklesOn |-> TRUE]

----------------------------------------------------------------------------
(* Child components: what each one puts in the render output *)

\* Variant: the cat's sparkles gated on simplified and sparklesOn only.
DecorativeCatNoMotionGate(simp, rm, sp) ==
    [body |-> TRUE, sparkles |-> ~simp /\ sp]

\* The cat's body is unconditional; only its sparkles are gated.
DecorativeCat(simp, rm, sp) ==
    [body |-> TRUE, sparkles |-> ~simp /\ sp /\ ~rm]

\* The moon's disc is unconditional; only the crater is gated.
DecorativeMoon(simp, rm) ==
    [disc |-> TRUE, crater |-> ~simp]

\* The shark's body is unconditional; only its sparkles are gated.
DecorativeShark(simp, rm, sp) ==
    [body |-> TRUE, sparkles |-> ~simp /\ sp /\ ~rm]

\* Variant: the <animate> element rendered without the reduceMotion gate.
OceanWavesAlwaysAnimate(simp, rm) ==
    IF simp THEN [path |-> FALSE, animate |-> FALSE]
            ELSE [path |-> TRUE, animate |-> TRUE]

\* simplified: an empty placeholder div; otherwise the wave path, and the
\* <animate> element unless reduceMotion.
OceanWaves(simp, rm) ==
    IF simp THEN [path |-> FALSE, animate |-> FALSE]
            ELSE [path |-> TRUE, animate |-> ~rm]

\* The four fixed stars, and the floaty keyframes <style> unless reduceMotion.
Sparkles(rm) ==
    [stars |-> TRUE, floaty |-> ~rm]

\* {!simplified && sparklesOn && <Sparkles reduceMotion={reduceMotion} />}
PageSparkles(simp, rm, sp) ==
    IF ~simp /\ sp THEN Sparkles(rm) ELSE [stars |-> FALSE, floaty |-> FALSE]

\* style={{ background: theme === 'ocean' ? '#dff6ff' : 'transparent' }}
PanelBackground(t) ==
    IF t = "ocean" THEN "#dff6ff" ELSE "transparent"

\* The render output of AutismFriendlySite for hook state S.
Render(S) ==
    [cat    |-> DecorativeCat(S.simplified, S.reduceMotion, S.sparklesOn),
     moon   |-> DecorativeMoon(S.simplified, S.reduceMotion),
     shark  |-> DecorativeShark(S.simplified, S.reduceMotion, S.sparklesOn),
     waves  |-> OceanWaves(S.simplified, S.reduceMotion),
     page   |-> PageSparkles(S.simplified, S.reduceMotion, S.sparklesOn),
     panel  |-> PanelBackground(S.theme),
     sparklesPressed |-> S.sparklesOn]

----------------------------------------------------------------------------
(* Effects *)

\* `${fontSize}px`
PxString(n) == ToString(n) \o "px"

UnsetStyle == [bg |-> "", muted |-> "", accent |-> "", siteFontSize |-> ""]

\* The second effect's body: --site-font-size, then the branch of the theme.
\* A theme matching no branch leaves the three colours as they were.
StyleEffect(style, S) ==
    LET sized == [style EXCEPT !.siteFontSize = PxString(S.fontSize)]
    IN  IF S.theme = "calm" THEN
            [sized EXCEPT !.bg = "#fffef6", !.muted = "#52606d", !.accent = "#7cc0e8"]
        ELSE IF S.theme = "ocean" THEN
            [sized EXCEPT !.bg = "#eef9ff", !.muted = "#0e3b57", !.accent = "#00a6d6"]
        ELSE IF S.theme = "contrast" THEN
            [sized EXCEPT !.bg = "#000000", !.muted = "#ffffff", !.accent = "#ffd60a"]
        ELSE sized

\* Variant: fontSize missing from the dependency list.
StyleEffectDepsThemeOnly(S) == <<S.theme>>

\* }, [theme, fontSize]);
StyleEffectDeps(S) == <<S.theme, S.fontSize>>

\* Variant: the media query is not consulted.
MountEffectIgnoresHost(S, matches) == S

\* if (mq.matches) setReduceMotion(true);
MountEffect(S, matches) ==
    IF matches THEN [S EXCEPT !.reduceMotion = TRUE] ELSE S

\* Variant: no dependency list, so the effect runs after every commit.
MountEffectDueEveryRender(isMount) == TRUE

\* }, []);  the first effect runs after the mount commit only.
MountEffectDue(isMount) == isMount

----------------------------------------------------------------------------
(* State updates and React's flush *)

SetTo(hook, val) == [hook |-> hook, kind |-> "set", val |-> val]

\* setSparklesOn((s) => !s)
Negate(hook) == [hook |-> hook, kind |-> "negate", val |-> FALSE]

ApplyUpdate(S, u) ==
    IF u.kind = "negate" THEN [S EXCEPT ![u.hook] = ~S[u.hook]]
                         ELSE [S EXCEPT ![u.hook] = u.val]

RECURSIVE ApplyAll(_, _)
ApplyAll(S, q) ==
    IF q = <<>> THEN S ELSE ApplyAll(ApplyUpdate(S, Head(q)), Tail(q))

\* Variant: every setState call rendered on its own, unbatched.
RECURSIVE FlushEachUpdate(_, _)
FlushEachUpdate(S, q) ==
    IF q = <<>> THEN <<>>
    ELSE LET S1 == ApplyUpdate(S, Head(q))
         IN  (IF S1 = S THEN <<>> ELSE <<S1>>) \o FlushEachUpdate(S1, Tail(q))

\* The setState calls of one event handler are batched: the queue is applied
\* whole and rendered once, and not at all when no hook's value changes.
Flush(S, q) ==
    LET S1 == ApplyAll(S, q) IN IF S1 = S THEN <<>> ELSE <<S1>>

----------------------------------------------------------------------------
(* The range control *)

\* Variant: the control without its max attribute.
RangeSanitizeNoMax(n) ==
    IF n < SliderMin THEN SliderMin ELSE n

\* The value a range input with min=14 max=28 (step 1) holds after an
\* attempt to set it to n.
RangeSanitize(n) ==
    IF n < SliderMin THEN SliderMin
    ELSE IF n > SliderMax THEN SliderMax
    ELSE n

\* e.target.value is a string.
TargetValue(n) == ToString(RangeSanitize(n))

\* Number(e.target.value)
Number(s) == CHOOSE k \in 0..(SliderMax + InputSlack + 1) : ToString(k) = s

----------------------------------------------------------------------------
(* Event handlers: the updates each one queues *)

\* onChange={(e) => setSimplified(e.target.checked)}
SimplifiedChange(b) == <<SetTo("simplified", b)>>

\* onChange={(e) => setReduceMotion(e.target.checked)}
ReduceMotionChange(b) == <<SetTo("reduceMotion", b)>>

\* onClick={() => setSparklesOn((s) => !s)}
SparklesClick == <<Negate("sparklesOn")>>

\* onClick={() => setTheme("calm" | "ocean" | "contrast")}
ThemeClick(t) == <<SetTo("theme", t)>>

\* onChange={(e) => setFontSize(Number(e.target.value))}
FontSizeChange(n) == <<SetTo("fontSize", Number(TargetValue(n)))>>

\* Variant: Quiet Mode without its setSparklesOn(false).
QuietModeKeepsSparkles ==
    <<SetTo("simplified", TRUE), SetTo("reduceMotion", TRUE)>>

\* setSimplified(true); setReduceMotion(true); setSparklesOn(false);
QuietModeClick ==
    <<SetTo("simplified", TRUE), SetTo("reduceMotion", TRUE), SetTo("sparklesOn", FALSE)>>

\* setSimplified(false); setReduceMotion(false); setSparklesOn(true);
PlayfulModeClick ==
    <<SetTo("simplified", FALSE), SetTo("reduceMotion", FALSE), SetTo("sparklesOn", TRUE)>>

----------------------------------------------------------------------------
(* Actions *)

Op(name, arg) == [name |-> name, arg |-> arg]

SetHooks(S) ==
    /\ theme' = S.theme
    /\ fontSize' = S.fontSize
    /\ reduceMotion' = S.reduceMotion
    /\ simplified' = S.simplified
    /\ sparklesOn' = S.sparklesOn

Init ==
    /\ theme = InitialHooks.theme
    /\ fontSize = InitialHooks.fontSize
    /\ reduceMotion = InitialHooks.reduceMotion
    /\ simplified = InitialHooks.simplified
    /\ sparklesOn = InitialHooks.sparklesOn
    /\ rootStyle = UnsetStyle
    /\ hostSignal \in BOOLEAN
    /\ phase = "rendered"
    /\ view = Render(InitialHooks)
    /\ commits = <<InitialHooks>>
    /\ lastOp = Op("init", "none")

\* The effects of the mount commit, in order, and the re-render that the
\* first effect's setReduceMotion(true) causes.
Mount ==
    /\ phase = "rendered"
    /\ LET S  == Hooks
           S1 == IF MountEffectDue(TRUE) THEN MountEffect(S, hostSignal) ELSE S
           cs == IF S1 = S THEN <<>> ELSE <<S1>>
       IN  /\ SetHooks(S1)
           /\ rootStyle' = StyleEffect(rootStyle, S)
           /\ commits' = cs
           /\ view' = IF cs = <<>> THEN view ELSE Render(cs[Len(cs)])
    /\ phase' = "mounted"
    /\ lastOp' = Op("mount", "none")
    /\ UNCHANGED hostSignal

\* One event: the handler queues q, React flushes it, commits, and runs the
\* effects whose dependencies changed.
Dispatch(op, q) ==
    /\ LET S   == Hooks
           S1  == ApplyAll(S, q)
           cs  == Flush(S, q)
           S2  == IF cs # <<>> /\ MountEffectDue(FALSE)
                  THEN MountEffect(S1, hostSignal) ELSE S1
           cs2 == IF S2 = S1 THEN cs ELSE Append(cs, S2)
       IN  /\ SetHooks(S2)
           /\ rootStyle' = IF cs # <<>> /\ StyleEffectDeps(S1) # StyleEffectDeps(S)
                           THEN StyleEffect(rootStyle, S1) ELSE rootStyle
           /\ commits' = cs2
           /\ view' = IF cs2 = <<>> THEN view ELSE Render(cs2[Len(cs2)])
    /\ lastOp' = op
    /\ UNCHANGED <<hostSignal, phase>>

\* Events reach the handlers once the component is mounted: the effects of the
\* mount commit are flushed before any later event is handled.
SetTheme ==
    /\ phase = "mounted"
    /\ \E t \in Themes : Dispatch(Op("setTheme", t), ThemeClick(t))

SetFontScale ==
    /\ phase = "mounted"
    /\ \E n \in SliderAttempts : Dispatch(Op("setFontScale", n), FontSizeChange(n))

SetReduceMotion ==
    /\ phase = "mounted"
    /\ \E b \in BOOLEAN : Dispatch(Op("setReduceMotion", b), ReduceMotionChange(b))

SetSimplified ==
    /\ phase = "mounted"
    /\ \E b \in BOOLEAN : Dispatch(Op("setSimplified", b), SimplifiedChange(b))

ToggleSparkles ==
    /\ phase = "mounted"
    /\ Dispatch(Op("toggleSparkles", "none"), SparklesClick)

QuietMode ==
    /\ phase = "mounted"
    /\ Dispatch(Op("applyPreset", "quiet"), QuietModeClick)

PlayfulMode ==
    /\ phase = "mounted"
    /\ Dispatch(Op("applyPreset", "playful"), PlayfulModeClick)

\* The system setting changes. The component registered no listener on the
\* media query, so nothing of the component changes.
HostChange ==
    /\ hostSignal' = ~hostSignal
    /\ lastOp' = Op("hostChange", "none")
    /\ UNCHANGED <<theme, fontSize, reduceMotion, simplified, sparklesOn,
                   rootStyle, phase, view, commits>>

Next ==
    \/ Mount
    \/ SetTheme
    \/ SetFontScale
    \/ SetReduceMotion
    \/ SetSimplified
    \/ ToggleSparkles
    \/ QuietMode
    \/ PlayfulMode
    \/ HostChange

Spec == Init /\ [][Next]_vars

----------------------------------------------------------------------------
(* Properties *)

\* C1: in every reachable state fontSize is an integer in [14, 28], and so is
\* the value written to --site-font-size once the style effect has run, also
\* after the slider was given a value outside [14, 28].
C1_FontScaleInRange ==
    /\ fontSize \in 14..28
    /\ phase = "mounted" => rootStyle.siteFontSize \in {PxString(n) : n \in 14..28}

C1_Witness ==
    /\ lastOp.name = "setFontScale"
    /\ lastOp.arg = 10
    /\ fontSize = 14
    /\ rootStyle.siteFontSize = "14px"

\* C2: after a font-size change with input n, fontSize is n clamped to the
\* nearest bound of [14, 28]; with the ocean theme and input 40 the result is
\* fontSize 28 under the ocean palette.
C2_ClampedToNearestBound ==
    lastOp.name = "setFontScale" =>
        /\ lastOp.arg < 14 => fontSize = 14
        /\ lastOp.arg > 28 => fontSize = 28
        /\ lastOp.arg \in 14..28 => fontSize = lastOp.arg
        /\ (theme = "ocean" /\ lastOp.arg = 40) =>
               /\ fontSize = 28
               /\ rootStyle = [bg |-> "#eef9ff", muted |-> "#0e3b57",
                               accent |-> "#00a6d6", siteFontSize |-> "28px"]

C2_Witness ==
    /\ lastOp.name = "setFontScale"
    /\ lastOp.arg = 40
    /\ theme = "ocean"
    /\ fontSize = 28
    /\ ~simplified /\ sparklesOn
    /\ rootStyle.bg = "#eef9ff"
    /\ rootStyle.siteFontSize = "28px"

\* C3: when simplified is true every decorative element (cat, moon, shark,
\* waves, cat and shark sparkles, full-page sparkles) is absent from the
\* committed render output.
C3_SimplifiedHidesAll ==
    simplified =>
        /\ ~view.cat.body /\ ~view.cat.sparkles
        /\ ~view.moon.disc /\ ~view.moon.crater
        /\ ~view.shark.body /\ ~view.shark.sparkles
        /\ ~view.waves.path /\ ~view.waves.animate
        /\ ~view.page.stars /\ ~view.page.floaty

\* C4: when reduceMotion is true the committed render output holds neither
\* the waves' <animate> element nor the sparkles' floaty keyframes style.
C4_NoMotionWhenReduced ==
    reduceMotion => ~view.waves.animate /\ ~view.page.floaty

C4_Witness ==
    /\ reduceMotion /\ ~simplified /\ sparklesOn
    /\ view.waves.path /\ view.page.stars
    /\ lastOp.name = "setReduceMotion"

\* C5: a preset click yields the preset's fixed triple whatever the prior
\* state, leaves theme, fontSize and the applied style alone, and a second
\* click of the same preset changes nothing.
C5_PresetTriple ==
    [][lastOp'.name = "applyPreset" =>
          /\ lastOp'.arg = "quiet" =>
                 simplified' /\ reduceMotion' /\ ~sparklesOn'
          /\ lastOp'.arg = "playful" =>
                 ~simplified' /\ ~reduceMotion' /\ sparklesOn'
          /\ theme' = theme /\ fontSize' = fontSize /\ rootStyle' = rootStyle
          /\ lastOp = lastOp' => Hooks' = Hooks /\ view' = view]_vars

C5_Witness ==
    /\ lastOp = Op("applyPreset", "quiet")
    /\ simplified /\ reduceMotion /\ ~sparklesOn
    /\ theme = "contrast" /\ fontSize = 28
    /\ commits = <<>>

\* C6: a preset click commits at most one render, exactly one when it changes
\* a field, and every render it commits shows all three fields at the
\* preset's values.
C6_PresetAtomic ==
    [][lastOp'.name = "applyPreset" =>
          /\ Len(commits') <= 1
          /\ Hooks' # Hooks <=> Len(commits') = 1
          /\ \A i \in DOMAIN commits' :
                /\ commits'[i] = Hooks'
                /\ commits'[i].simplified = (lastOp'.arg = "quiet")
                /\ commits'[i].reduceMotion = (lastOp'.arg = "quiet")
                /\ commits'[i].sparklesOn = (lastOp'.arg = "playful")
          /\ view' = Render(Hooks')]_vars

C6_Witness ==
    /\ lastOp = Op("applyPreset", "playful")
    /\ Len(commits) = 1
    /\ ~commits[1].simplified /\ ~commits[1].reduceMotion /\ commits[1].sparklesOn
    /\ hostSignal

\* C7: once the style effect has run, the three colour variables are the
\* table row of the current theme and --site-font-size is the current
\* fontSize.
C7_StyleMatchesState ==
    phase = "mounted" =>
        /\ rootStyle.siteFontSize = PxString(fontSize)
        /\ theme = "calm" =>
               rootStyle.bg = "#fffef6" /\ rootStyle.muted = "#52606d"
                   /\ rootStyle.accent = "#7cc0e8"
        /\ theme = "ocean" =>
               rootStyle.bg = "#eef9ff" /\ rootStyle.muted = "#0e3b57"
                   /\ rootStyle.accent = "#00a6d6"
        /\ theme = "contrast" =>
               rootStyle.bg = "#000000" /\ rootStyle.muted = "#ffffff"
                   /\ rootStyle.accent = "#ffd60a"
        /\ theme \in Themes

C7_Witness ==
    /\ lastOp.name = "setFontScale"
    /\ theme = "contrast"
    /\ fontSize = 20
    /\ rootStyle = [bg |-> "#000000", muted |-> "#ffffff",
                    accent |-> "#ffd60a", siteFontSize |-> "20px"]

\* C8: the state right after mount is theme calm, fontSize 16, simplified
\* false, sparklesOn true and reduceMotion equal to the host signal.
C8_StateAtLoad ==
    lastOp.name = "mount" =>
        /\ theme = "calm"
        /\ fontSize = 16
        /\ ~simplified
        /\ sparklesOn
        /\ reduceMotion = hostSignal

C8_Witness ==
    /\ lastOp.name = "mount"
    /\ hostSignal
    /\ reduceMotion
    /\ commits # <<>>

\* C9 as stated: the sparkles around the cat, around the shark and over the
\* page are each visible iff simplified is false and sparklesOn is true.
C9_SparklesIgnoreMotion ==
    /\ view.cat.sparkles = (~simplified /\ sparklesOn)
    /\ view.shark.sparkles = (~simplified /\ sparklesOn)
    /\ view.page.stars = (~simplified /\ sparklesOn)

\* C9 amended: the full-page sparkles are visible iff simplified is false and
\* sparklesOn is true; the sparkles around the cat and around the shark
\* require reduceMotion to be false as well.
C9_SparklesVisibility ==
    /\ view.page.stars = (~simplified /\ sparklesOn)
    /\ view.cat.sparkles = (~simplified /\ sparklesOn /\ ~reduceMotion)
    /\ view.shark.sparkles = (~simplified /\ sparklesOn /\ ~reduceMotion)

C9_Witness ==
    /\ ~simplified /\ sparklesOn /\ reduceMotion
    /\ view.page.stars
    /\ ~view.cat.sparkles /\ ~view.shark.sparkles

\* C10: a change of the host signal changes nothing of the component; after
\* mount reduceMotion changes only by the reduce-motion checkbox or a preset,
\* and each of them sets it to its own value whatever the host signal is.
C10_HostReadOnce ==
    [][/\ lastOp'.name = "hostChange" =>
             Hooks' = Hooks /\ view' = view /\ rootStyle' = rootStyle
       /\ (phase = "mounted" /\ reduceMotion' # reduceMotion) =>
             lastOp'.name \in {"setReduceMotion", "applyPreset"}
       /\ lastOp'.name = "setReduceMotion" => reduceMotion' = lastOp'.arg
       /\ lastOp'.name = "applyPreset" => reduceMotion' = (lastOp'.arg = "quiet")]_vars

C10_Witness ==
    /\ phase = "mounted"
    /\ lastOp.name = "hostChange"
    /\ hostSignal
    /\ ~reduceMotion
    /\ commits # <<>>

====
